---- MODULE Spec2Model ----
(***************************************************************************)
(* Session lifecycle of claude-code-sessions-manager.                      *)
(*                                                                         *)
(* The model follows src/src/domain/models.py (Session),                   *)
(* src/src/config/settings.py (Settings, get_settings),                    *)
(* src/src/infrastructure/storage.py (FileSessionStorage),                 *)
(* src/src/infrastructure/claude_client.py (ClaudeClient) and              *)
(* src/src/services/session_manager.py (SessionManager).                   *)
(*                                                                         *)
(* Time is counted in hours.  A datetime is an integer, datetime.now() is  *)
(* a read of the non-decreasing variable clock.  The first read of a call  *)
(* sees clock (Tick is the time that passes before it), every later read   *)
(* of the same call may see a later value.                                 *)
(*                                                                         *)
(* The session file is a record: whether it exists, the kind of JSON value *)
(* it holds, the key/value pairs of the JSON object written so far, and    *)
(* whether the text was closed.  A timestamp is stored as the digits of    *)
(* its ISO text.                                                           *)
(***************************************************************************)
EXTENDS Integers, Sequences, FiniteSets, TLC

VARIABLES
    file,       \* the content of settings.session_file_path
    clock,      \* the wall clock, as last read
    settings,   \* the Settings the manager was constructed with
    last,       \* what the most recent manager call did and returned
    prev        \* the call before it, in short

vars == <<file, clock, settings, last, prev>>

----------------------------------------------------------------------------
(* Bounds *)

StartTime == 9
MaxTime == 11
MaxDuration == 2

\* main.py's fixed session length, which Settings replaced
SESSION_DURATION == 5

Durations == {0 - 1, 0} \cup (1 .. MaxDuration)

----------------------------------------------------------------------------
(* domain/models.py *)

ACTIVE == "active"
EXPIRED == "expired"

Session(c, e, s) == [created_at |-> c, expires_at |-> e, status |-> s]

create_active_checked(created_at, expires_at) ==
    Session(created_at, expires_at,
            IF expires_at > created_at THEN ACTIVE ELSE EXPIRED)

create_active(created_at, expires_at) ==
    Session(created_at, expires_at, ACTIVE)

from_data_inclusive(created_at, expires_at, now) ==
    Session(created_at, expires_at,
            IF expires_at >= now THEN ACTIVE ELSE EXPIRED)

from_data(created_at, expires_at, now) ==
    Session(created_at, expires_at,
            IF expires_at > now THEN ACTIVE ELSE EXPIRED)

is_active_by_status(s, now) == s.status = ACTIVE

is_active_inclusive(s, now) == s.status = ACTIVE /\ s.expires_at >= now

is_active(s, now) == s.status = ACTIVE /\ s.expires_at > now

is_expired(s, now) == ~ is_active(s, now)

----------------------------------------------------------------------------
(* Optional values: None is the empty sequence, a value v is <<v>>. *)

None == << >>
Some(v) == << v >>
IsNone(o) == o = << >>

----------------------------------------------------------------------------
(* datetime.isoformat / datetime.fromisoformat, on two decimal digits *)

isoformat(t) == << t \div 10, t % 10 >>

IsIsoText(s) ==
    /\ Len(s) = 2
    /\ \A i \in 1 .. 2 : s[i] \in 0 .. 9

fromisoformat_shifted(s) == 10 * s[1] + s[2] + 1

fromisoformat(s) == 10 * s[1] + s[2]

----------------------------------------------------------------------------
(* config/settings.py *)

\* The text of an environment variable is a sequence of characters; a
\* variable is None when unset and Some(text) when set.
Digits == << "0", "1", "2", "3", "4", "5", "6", "7", "8", "9" >>

IsDigit(ch) == \E i \in 1 .. Len(Digits) : Digits[i] = ch

DigitValue(ch) == (CHOOSE i \in 1 .. Len(Digits) : Digits[i] = ch) - 1

\* The digits of a text after its sign.
Unsigned(s) == IF Len(s) > 0 /\ s[1] \in {"-", "+"} THEN Tail(s) ELSE s

\* int(text) raises ValueError unless the text is an optional sign and
\* then digits.
IsIntText(s) ==
    /\ Len(Unsigned(s)) > 0
    /\ \A i \in 1 .. Len(Unsigned(s)) : IsDigit(Unsigned(s)[i])

RECURSIVE Magnitude(_)
Magnitude(s) ==
    IF Len(s) = 0 THEN 0
    ELSE 10 * Magnitude(SubSeq(s, 1, Len(s) - 1)) + DigitValue(s[Len(s)])

int(s) ==
    IF s[1] = "-" THEN 0 - Magnitude(Unsigned(s)) ELSE Magnitude(Unsigned(s))

\* `os.getenv(name, default)`
getenv(env, name, default) ==
    IF IsNone(env[name]) THEN default ELSE env[name][1]

NumberVars == {"SESSION_DURATION_HOURS", "CLAUDE_TIMEOUT_SECONDS", "CLAUDE_MAX_TURNS"}

\* The defaults from_env passes to os.getenv.
EnvDefaults ==
    [SESSION_DURATION_HOURS |-> << "5" >>,
     SESSION_FILE_PATH |-> "session.json",
     CLAUDE_TIMEOUT_SECONDS |-> << "1", "0" >>,
     CLAUDE_MAX_TURNS |-> << "1" >>,
     CLAUDE_OUTPUT_FORMAT |-> "json"]

Configured(raised, msg, ret) == [raised |-> raised, msg |-> msg, ret |-> ret]

from_env(env) ==
    LET text(name) == getenv(env, name, EnvDefaults[name])
    IN  IF \E name \in NumberVars : ~ IsIntText(text(name))
        THEN Configured("ConfigurationError", "Invalid configuration value", None)
        ELSE Configured("none", "none",
                 Some([session_duration_hours |->
                           int(text("SESSION_DURATION_HOURS")),
                       session_file_path |-> text("SESSION_FILE_PATH"),
                       claude_timeout_seconds |->
                           int(text("CLAUDE_TIMEOUT_SECONDS")),
                       max_turns |-> int(text("CLAUDE_MAX_TURNS")),
                       output_format |-> text("CLAUDE_OUTPUT_FORMAT")]))

validate_duration_only(s) ==
    IF s.session_duration_hours <= 0
    THEN Configured("ConfigurationError", "Session duration must be positive", None)
    ELSE Configured("none", "none", None)

validate(s) ==
    IF s.session_duration_hours <= 0
    THEN Configured("ConfigurationError", "Session duration must be positive", None)
    ELSE IF s.claude_timeout_seconds <= 0
    THEN Configured("ConfigurationError", "Claude timeout must be positive", None)
    ELSE IF s.max_turns <= 0
    THEN Configured("ConfigurationError", "Max turns must be positive", None)
    ELSE IF s.output_format \notin {"json", "text"}
    THEN Configured("ConfigurationError", "Output format must be 'json' or 'text'", None)
    ELSE Configured("none", "none", None)

get_settings(env) ==
    LET made == from_env(env)
        validated == validate(made.ret[1])
    IN  IF made.raised # "none" THEN made
        ELSE IF validated.raised # "none" THEN validated
        ELSE made

----------------------------------------------------------------------------
(* infrastructure/storage.py *)

NoFile ==
    [exists |-> FALSE, value |-> "object", closed |-> FALSE, pairs |-> << >>]

\* The dictionary save() builds, in the order json.dump writes it.
session_data(s) ==
    << << "created_at", isoformat(s.created_at) >>,
       << "expires_at", isoformat(s.expires_at) >>,
       << "status", s.status >> >>

\* The file json.dump leaves when it completes.
Written(s) ==
    [exists |-> TRUE, value |-> "object", closed |-> TRUE,
     pairs |-> session_data(s)]

\* The file left when the write stops after k pairs: open(..., "w") has
\* already truncated it.
Torn(s, k) ==
    [exists |-> TRUE, value |-> "object", closed |-> FALSE,
     pairs |-> SubSeq(session_data(s), 1, k)]

\* What the operating system does to a save: it completes, open() fails, or
\* the write fails after n of the pairs.
SaveOutcomes ==
    {[kind |-> "ok", n |-> 3], [kind |-> "open_error", n |-> 0]}
        \cup {[kind |-> "write_error", n |-> k] : k \in 0 .. 3}

save_keeping(f, s, io) ==
    IF f.exists /\ f.closed THEN [file |-> f, raised |-> "none"]
    ELSE IF io.kind = "ok" THEN [file |-> Written(s), raised |-> "none"]
    ELSE [file |-> f, raised |-> "StorageError"]

save_exclusive(f, s, io) ==
    IF f.exists THEN [file |-> f, raised |-> "StorageError"]
    ELSE IF io.kind = "ok" THEN [file |-> Written(s), raised |-> "none"]
    ELSE [file |-> f, raised |-> "StorageError"]

save(f, s, io) ==
    CASE io.kind = "ok" -> [file |-> Written(s), raised |-> "none"]
      [] io.kind = "open_error" -> [file |-> f, raised |-> "StorageError"]
      [] OTHER -> [file |-> Torn(s, io.n), raised |-> "StorageError"]

exists_always(f) == TRUE

exists(f) == f.exists

HasKey(pairs, k) == \E i \in 1 .. Len(pairs) : pairs[i][1] = k

Value(pairs, k) ==
    pairs[CHOOSE i \in 1 .. Len(pairs) :
              /\ pairs[i][1] = k
              /\ \A j \in (i + 1) .. Len(pairs) : pairs[j][1] # k][2]

\* The timestamp load() parses out of a complete file.
Stored(f, key) == fromisoformat(Value(f.pairs, key))

LoadOutcomes == {"ok", "os_error"}

\* `Session.from_data(created_at=created_at, expires_at=expires_at)` on the
\* two parsed timestamps of the dictionary json.load returned
parsed_with_status(pairs, now) ==
    Session(fromisoformat(Value(pairs, "created_at")),
            fromisoformat(Value(pairs, "expires_at")),
            Value(pairs, "status"))

parsed(pairs, now) ==
    from_data(fromisoformat(Value(pairs, "created_at")),
              fromisoformat(Value(pairs, "expires_at")),
              now)

\* A try block that takes a file that is not there for no session, on the
\* complete files that successful saves leave behind.
read_absent_as_none(f, now, io) ==
    IF ~ f.exists THEN [raised |-> "none", ret |-> None]
    ELSE [raised |-> "none", ret |-> Some(parsed(f.pairs, now))]

\* The try block of load(): open, json.load, the two lookups and parses.
\* The except clause turns OSError, JSONDecodeError, KeyError and
\* ValueError into StorageError; subscripting a JSON value that is not an
\* object raises TypeError, which it does not name.  open() of a file that
\* is not there raises FileNotFoundError, an OSError.
read(f, now, io) ==
    IF io = "os_error" \/ ~ f.exists
    THEN [raised |-> "StorageError", ret |-> None]
    ELSE IF ~ f.closed THEN [raised |-> "StorageError", ret |-> None]
    ELSE IF f.value # "object" THEN [raised |-> "TypeError", ret |-> None]
    ELSE IF ~ (HasKey(f.pairs, "created_at") /\ HasKey(f.pairs, "expires_at"))
         THEN [raised |-> "StorageError", ret |-> None]
    ELSE IF ~ (IsIsoText(Value(f.pairs, "created_at"))
               /\ IsIsoText(Value(f.pairs, "expires_at")))
         THEN [raised |-> "StorageError", ret |-> None]
    ELSE [raised |-> "none", ret |-> Some(parsed(f.pairs, now))]

load_or_create(f, now, io) ==
    IF ~ exists(f) THEN [raised |-> "none", ret |-> Some(from_data(now, now, now))]
    ELSE read(f, now, io)

load(f, now, io) ==
    IF ~ exists(f) THEN [raised |-> "none", ret |-> None]
    ELSE read(f, now, io)

DeleteOutcomes == {"ok", "os_error"}

delete_unchecked(f, io) ==
    IF exists(f) /\ io # "os_error" THEN [file |-> NoFile, raised |-> "none"]
    ELSE [file |-> f, raised |-> "StorageError"]

delete_keeping(f, io) == [file |-> f, raised |-> "none"]

delete(f, io) ==
    IF exists(f)
    THEN IF io = "os_error" THEN [file |-> f, raised |-> "StorageError"]
         ELSE [file |-> NoFile, raised |-> "none"]
    ELSE [file |-> f, raised |-> "none"]

----------------------------------------------------------------------------
(* infrastructure/claude_client.py *)

\* How the launch of `claude --help` ends.
ProbeOutcomes == {"exit_zero", "exit_nonzero", "timeout", "not_found", "os_error"}

test_connection(o) ==
    CASE o = "exit_zero" -> [raised |-> "none", ret |-> TRUE]
      [] o = "os_error" -> [raised |-> "OSError", ret |-> FALSE]
      [] OTHER -> [raised |-> "none", ret |-> FALSE]

\* What `claude -p ...` printed: text that is empty, blank, not JSON, or
\* JSON; for JSON the kind of value; for an object its is_error member
\* (absent, or the JSON value it has) and whether it has a result member.
Text(t) ==
    [text |-> t, value |-> "none", is_error |-> "absent", result |-> "absent"]

Json(v) ==
    [text |-> "json", value |-> v, is_error |-> "absent", result |-> "absent"]

Response(e, r) ==
    [text |-> "json", value |-> "object", is_error |-> e, result |-> r]

\* How a launch of the tool ends: it exits with a code and an output, or
\* subprocess.run raises TimeoutExpired, FileNotFoundError or another
\* OSError.
Exited(code, out) == [kind |-> "exited", code |-> code, out |-> out]

Failed(kind) == [kind |-> kind, code |-> 0, out |-> Text("empty")]

\* The launch that answers the handshake.
Answered == Exited(0, Response("absent", "present"))

\* How the launch of `claude -p ...` ends, one launch of each kind.
SendOutcomes ==
    {Answered, Exited(0, Response("true", "present")), Exited(0, Json("array")),
     Exited(0, Text("not_json")), Exited(0, Text("empty")), Failed("timeout"),
     Failed("not_found")}

\* What a send_message gives: the exception class, which except clause
\* built its message, the message of the exception raised inside the try
\* block, and the response returned.
Sent(raised, msg, detail, ret) ==
    [raised |-> raised, msg |-> msg, detail |-> detail, ret |-> ret]

\* `response.get("is_error", False)` in a condition: the truth value of
\* the JSON value.
Truthy(e) == e \in {"true", "one", "text"}

\* `response.get("result", "Unknown error")`
error_message(out) ==
    IF out.result = "absent" THEN "Unknown error" ELSE "result"

verify_response_lenient(out) ==
    IF out.is_error = "true" /\ out.value = "object"
    THEN Sent("ClaudeClientError", "none", error_message(out), None)
    ELSE Sent("none", "none", "none", Some(out))

verify_response(out) ==
    IF out.value # "object"
    THEN Sent("ClaudeClientError", "none", "not_object", None)
    ELSE IF Truthy(out.is_error)
    THEN Sent("ClaudeClientError", "none", error_message(out), None)
    ELSE Sent("none", "none", "none", Some(out))

parse_response(out) ==
    IF out.text # "json"
    THEN Sent("ClaudeClientError", "none", "invalid_json", None)
    ELSE verify_response(out)

\* `result.stdout.strip()`: nothing is left of empty or blank output.
stripped_empty(out) == out.text \in {"empty", "blank"}

\* The try block runs the tool, rejects empty output and parses the rest;
\* `except Exception` wraps whatever is raised inside it, the
\* ClaudeClientError of the block itself included.
send_message(p) ==
    LET inner == IF stripped_empty(p.out)
                 THEN Sent("ClaudeClientError", "none", "empty", None)
                 ELSE parse_response(p.out)
    IN  IF p.kind = "timeout"
        THEN Sent("ClaudeClientError", "timeout", "TimeoutExpired", None)
        ELSE IF p.kind # "exited"
        THEN Sent("ClaudeClientError", "unexpected", p.kind, None)
        ELSE IF inner.raised # "none"
        THEN [inner EXCEPT !.msg = "unexpected"]
        ELSE inner

----------------------------------------------------------------------------
(* services/session_manager.py *)

\* The outcome of a manager call: the file it leaves, what it raised (and
\* with which message), what it returned (ret a Session or None, flag a
\* bool), the calls it made to its collaborators in order, what the probe
\* and the handshake gave it, and the values its datetime.now() calls read,
\* in order.
Outcome(f) ==
    [file |-> f, raised |-> "none", msg |-> "none", ret |-> None,
     flag |-> FALSE, calls |-> << >>, probe |-> "not_called",
     sent |-> "not_called", reads |-> << >>]

\* What a probe that did not raise returned.
Returned(probe) == IF probe.ret THEN "true" ELSE "false"

Count(calls, name) == Cardinality({i \in 1 .. Len(calls) : calls[i] = name})

\* `if not self.claude_client.test_connection()`
probe_failed_never(probe) == FALSE

probe_failed(probe) == ~ probe.ret

\* `except ClaudeClientError as e` around the handshake
send_failed_never(sent) == FALSE

send_failed(sent) == sent.raised = "ClaudeClientError"

\* `created_at + timedelta(hours=self.settings.session_duration_hours)`
expires_after_default(created_at, hours) == created_at + SESSION_DURATION

expires_after(created_at, hours) == created_at + hours

activate_session_retrying(f, d, po, so, now, io) ==
    LET probe == test_connection(po)
        sent == send_message(so)
        session == create_active(now, expires_after(now, d))
        saved == save(f, session, io)
    IN  IF probe.raised # "none" \/ probe_failed(probe)
        THEN [Outcome(f) EXCEPT
                  !.raised = "ClaudeClientError",
                  !.msg = "not_available",
                  !.calls = << "test_connection", "test_connection" >>,
                  !.probe = "false"]
        ELSE IF send_failed(sent)
        THEN [Outcome(f) EXCEPT
                  !.raised = "ClaudeClientError",
                  !.msg = "could_not_activate",
                  !.calls = << "test_connection", "send_message",
                               "send_message" >>,
                  !.probe = "true",
                  !.sent = "raised"]
        ELSE [Outcome(saved.file) EXCEPT
                  !.raised = saved.raised,
                  !.ret = IF saved.raised = "none" THEN Some(session) ELSE None,
                  !.calls = << "test_connection", "send_message", "save" >>,
                  !.probe = "true",
                  !.sent = "ok",
                  !.reads = << now >>]

activate_session(f, d, po, so, now, io) ==
    LET probe == test_connection(po)
        sent == send_message(so)
        session == create_active(now, expires_after(now, d))
        saved == save(f, session, io)
    IN  IF probe.raised # "none"
        THEN [Outcome(f) EXCEPT !.raised = probe.raised,
                                !.calls = << "test_connection" >>,
                                !.probe = "raised"]
        ELSE IF probe_failed(probe)
        THEN [Outcome(f) EXCEPT !.raised = "ClaudeClientError",
                                !.msg = "not_available",
                                !.calls = << "test_connection" >>,
                                !.probe = Returned(probe)]
        ELSE IF send_failed(sent)
        THEN [Outcome(f) EXCEPT !.raised = "ClaudeClientError",
                                !.msg = "could_not_activate",
                                !.calls = << "test_connection", "send_message" >>,
                                !.probe = Returned(probe),
                                !.sent = "raised"]
        ELSE [Outcome(saved.file) EXCEPT
                  !.raised = saved.raised,
                  !.ret = IF saved.raised = "none" THEN Some(session) ELSE None,
                  !.calls = << "test_connection", "send_message", "save" >>,
                  !.probe = Returned(probe),
                  !.sent = IF sent.raised = "none" THEN "ok" ELSE "raised",
                  !.reads = << now >>]

get_current_session_purging(f, now, lio) ==
    LET loaded == load(f, now, lio)
        stale == ~ IsNone(loaded.ret) /\ loaded.ret[1].status = EXPIRED
    IN  [Outcome(IF stale THEN NoFile ELSE f) EXCEPT
             !.raised = loaded.raised,
             !.ret = IF stale THEN None ELSE loaded.ret,
             !.calls = IF stale THEN << "load", "delete" >> ELSE << "load" >>,
             !.reads = IF IsNone(loaded.ret) THEN << >> ELSE << now >>]

get_current_session(f, now, lio) ==
    LET loaded == load(f, now, lio)
    IN  [Outcome(f) EXCEPT !.raised = loaded.raised,
                           !.ret = loaded.ret,
                           !.calls = << "load" >>,
                           !.reads = IF IsNone(loaded.ret) THEN << >>
                                     ELSE << now >>]

\* `Session.from_data(created_at=session.created_at, expires_at=...)`
updated_from_now(session, now) ==
    from_data(now, session.expires_at, now)

updated_as_active(session, now) ==
    create_active(session.created_at, session.expires_at)

updated(session, now) ==
    from_data(session.created_at, session.expires_at, now)

get_session_info(f, now1, now2, lio, io) ==
    LET got == get_current_session(f, now1, lio)
        session == got.ret[1]
        updated_session == updated(session, now2)
        saved == save(f, updated_session, io)
    IN  IF got.raised # "none" THEN got
        ELSE IF IsNone(got.ret)
        THEN [got EXCEPT !.raised = "SessionNotFoundError"]
        ELSE [Outcome(saved.file) EXCEPT
                  !.raised = saved.raised,
                  !.ret = IF saved.raised = "none" THEN Some(updated_session)
                          ELSE None,
                  !.calls = << "load", "save" >>,
                  !.reads = got.reads \o << now2 >>]

\* The reads of the property is_active: `and` reaches datetime.now() only
\* when the status is ACTIVE.
is_active_reads(s, now) == IF s.status = ACTIVE THEN << now >> ELSE << >>

is_session_active_writing_back(f, now1, now2, lio) ==
    LET info == get_session_info(f, now1, now2, lio, [kind |-> "ok", n |-> 3])
    IN  IF info.raised = "SessionNotFoundError"
        THEN [info EXCEPT !.raised = "none"]
        ELSE IF info.raised # "none" THEN info
        ELSE [info EXCEPT !.ret = None,
                          !.flag = info.ret[1].status = ACTIVE]

is_session_active_lenient(f, now1, now2, lio) ==
    LET got == get_current_session(f, now1, lio)
    IN  IF got.raised # "none" \/ IsNone(got.ret)
        THEN [got EXCEPT !.raised = "none", !.flag = FALSE]
        ELSE [got EXCEPT !.ret = None,
                         !.flag = is_active(got.ret[1], now2),
                         !.reads = got.reads \o is_active_reads(got.ret[1], now2)]

is_session_active(f, now1, now2, lio) ==
    LET got == get_current_session(f, now1, lio)
    IN  IF got.raised # "none" THEN got
        ELSE IF IsNone(got.ret) THEN [got EXCEPT !.flag = FALSE]
        ELSE [got EXCEPT !.ret = None,
                         !.flag = is_active(got.ret[1], now2),
                         !.reads = got.reads \o is_active_reads(got.ret[1], now2)]

delete_session(f, io) ==
    LET deleted == delete(f, io)
    IN  [Outcome(deleted.file) EXCEPT !.raised = deleted.raised,
                                      !.calls = << "delete" >>]

\* `Session.create_active(created_at=current_session.created_at,
\* expires_at=datetime.now() + timedelta(hours=...))`
refreshed_from_now(current_session, now, d) == create_active(now, now + d)

refreshed_without_duration(current_session, now, d) ==
    create_active(current_session.created_at, now)

refreshed(current_session, now, d) ==
    create_active(current_session.created_at, now + d)

\* `if current_session.is_expired`
expired_never(current_session, now) == FALSE

expired(current_session, now) == is_expired(current_session, now)

refresh_session(f, d, now1, now2, now3, lio, io) ==
    LET got == get_current_session(f, now1, lio)
        current_session == got.ret[1]
        checked == got.reads \o is_active_reads(current_session, now2)
        refreshed_session == refreshed(current_session, now3, d)
        saved == save(f, refreshed_session, io)
    IN  IF got.raised # "none" THEN got
        ELSE IF IsNone(got.ret)
        THEN [got EXCEPT !.raised = "SessionNotFoundError"]
        ELSE IF expired(current_session, now2)
        THEN [got EXCEPT !.raised = "SessionExpiredError", !.ret = None,
                         !.reads = checked]
        ELSE [Outcome(saved.file) EXCEPT
                  !.raised = saved.raised,
                  !.ret = IF saved.raised = "none" THEN Some(refreshed_session)
                          ELSE None,
                  !.calls = << "load", "save" >>,
                  !.reads = checked \o << now3 >>]

----------------------------------------------------------------------------
(* The state machine *)

\* The record of a call: its name, the file before it, the clock when it
\* returned or raised, and its Outcome without the file.
Call(op, pre, r, now) ==
    [op |-> op, pre |-> pre, now |-> now, raised |-> r.raised, msg |-> r.msg,
     ret |-> r.ret, flag |-> r.flag, calls |-> r.calls, probe |-> r.probe,
     sent |-> r.sent, reads |-> r.reads]

\* What is kept of the calls before the last one: a get_session_info, that
\* it was a delete_session and what that raised, or that it was another call;
\* and `window`, the clock of the latest activate_session that returned when
\* no activate_session, refresh_session or delete_session was called since.
Window(c, p) ==
    IF c.op = "activate_session" /\ c.raised = "none" THEN Some(c.now)
    ELSE IF c.op \in {"activate_session", "refresh_session", "delete_session"}
    THEN None
    ELSE p.window

Short(c, p) ==
    IF c.op = "get_session_info"
    THEN [op |-> c.op, now |-> c.now, raised |-> c.raised, ret |-> c.ret,
          window |-> Window(c, p)]
    ELSE IF c.op = "delete_session"
    THEN [op |-> c.op, now |-> StartTime, raised |-> c.raised, ret |-> None,
          window |-> Window(c, p)]
    ELSE [op |-> "other", now |-> StartTime, raised |-> "none", ret |-> None,
          window |-> Window(c, p)]

NoCall == Call("none", NoFile, Outcome(NoFile), StartTime)

Init ==
    /\ file = NoFile
    /\ clock = StartTime
    /\ settings \in [session_duration_hours : Durations]
    /\ last = NoCall
    /\ prev = Short(NoCall, [window |-> None])

Done(op, r, now) ==
    /\ file' = r.file
    /\ clock' = now
    /\ prev' = Short(last, prev)
    /\ last' = Call(op, file, r, now)
    /\ UNCHANGED settings

\* An input the call never consumes is held at its first value: the
\* handshake's when the probe did not return true, the save's when the
\* handshake failed.
ActivateSession ==
    \E po \in ProbeOutcomes, so \in SendOutcomes, io \in SaveOutcomes :
        /\ po # "exit_zero" => so = Answered
        /\ (po # "exit_zero" \/ send_message(so).raised # "none") =>
               io.kind = "ok"
        /\ Done("activate_session",
                activate_session(file, settings.session_duration_hours, po, so,
                                 clock, io),
                clock)

GetCurrentSession ==
    \E lio \in LoadOutcomes :
        Done("get_current_session", get_current_session(file, clock, lio), clock)

GetSessionInfo ==
    \E lio \in LoadOutcomes, io \in SaveOutcomes, now2 \in clock .. MaxTime :
        /\ lio # "ok" => io.kind = "ok"
        /\ Done("get_session_info",
                get_session_info(file, clock, now2, lio, io), now2)

IsSessionActive ==
    \E lio \in LoadOutcomes, now2 \in clock .. MaxTime :
        Done("is_session_active", is_session_active(file, clock, now2, lio),
             now2)

DeleteSession ==
    \E io \in DeleteOutcomes :
        Done("delete_session", delete_session(file, io), clock)

RefreshSession ==
    \E lio \in LoadOutcomes, io \in SaveOutcomes, now2 \in clock .. MaxTime :
        \E now3 \in now2 .. MaxTime :
            /\ lio # "ok" => io.kind = "ok"
            /\ Done("refresh_session",
                    refresh_session(file, settings.session_duration_hours,
                                    clock, now2, now3, lio, io),
                    now3)

Tick ==
    /\ clock < MaxTime
    /\ clock' = clock + 1
    /\ UNCHANGED <<file, settings, last, prev>>

Next ==
    \/ ActivateSession
    \/ GetCurrentSession
    \/ GetSessionInfo
    \/ IsSessionActive
    \/ DeleteSession
    \/ RefreshSession
    \/ Tick

Spec == Init /\ [][Next]_vars

----------------------------------------------------------------------------
(* The Session entity on its own: every constructor and property applied   *)
(* to every timestamp around the clock, the stored status included.        *)

SessionTimes == (StartTime - 1) .. (MaxTime + 1)

\* The record of one application: its inputs (status is the stored status of
\* the Session a property is read from), the clock it saw and its value.
Applied(op, c, e, st, now, ret, flag) ==
    [op |-> op, created_at |-> c, expires_at |-> e, status |-> st,
     now |-> now, ret |-> ret, flag |-> flag]

SessionInit ==
    /\ file = NoFile
    /\ clock = StartTime
    /\ settings = [session_duration_hours |-> 1]
    /\ last = Applied("none", StartTime, StartTime, "none", StartTime, None, FALSE)
    /\ prev = Short(NoCall, [window |-> None])

CreateActive ==
    \E c \in SessionTimes, e \in SessionTimes :
        /\ last' = Applied("create_active", c, e, "none", clock,
                           Some(create_active(c, e)), FALSE)
        /\ UNCHANGED <<file, clock, settings, prev>>

FromData ==
    \E c \in SessionTimes, e \in SessionTimes :
        /\ last' = Applied("from_data", c, e, "none", clock,
                           Some(from_data(c, e, clock)), FALSE)
        /\ UNCHANGED <<file, clock, settings, prev>>

IsActive ==
    \E c \in SessionTimes, e \in SessionTimes, st \in {ACTIVE, EXPIRED} :
        /\ last' = Applied("is_active", c, e, st, clock, None,
                           is_active(Session(c, e, st), clock))
        /\ UNCHANGED <<file, clock, settings, prev>>

IsExpired ==
    \E c \in SessionTimes, e \in SessionTimes, st \in {ACTIVE, EXPIRED} :
        /\ last' = Applied("is_expired", c, e, st, clock, None,
                           is_expired(Session(c, e, st), clock))
        /\ UNCHANGED <<file, clock, settings, prev>>

SessionNext ==
    \/ CreateActive
    \/ FromData
    \/ IsActive
    \/ IsExpired
    \/ Tick

SessionSpec == SessionInit /\ [][SessionNext]_vars

----------------------------------------------------------------------------
(* FileSessionStorage on its own: save, load and delete applied to every   *)
(* Session around the clock, starting from every kind of file content,     *)
(* whoever wrote it.                                                       *)

Sessions ==
    {Session(c, e, st) : c \in {StartTime - 1, StartTime},
                         e \in SessionTimes, st \in {ACTIVE, EXPIRED}}

\* A closed JSON text that is an object with the given pairs.
Object(pairs) ==
    [exists |-> TRUE, value |-> "object", closed |-> TRUE, pairs |-> pairs]

\* A closed JSON text that is not an object: [], "abc", 5, null.
NotObject(value) ==
    [exists |-> TRUE, value |-> value, closed |-> TRUE, pairs |-> << >>]

\* Timestamp texts fromisoformat rejects: too short, not digits.
BadTexts == {<< 1 >>, << 1, 10 >>}

\* What the file can hold when the storage is constructed: nothing, text
\* that is not JSON, JSON that is not an object, an object lacking a
\* timestamp, an object with a timestamp that does not parse, a record.
Contents ==
    {NoFile, Torn(Session(StartTime, StartTime, ACTIVE), 0)}
        \cup {NotObject(v) : v \in {"array", "string", "number", "null"}}
        \cup {Object(<< >>),
              Object(<< << "created_at", isoformat(StartTime) >> >>),
              Object(<< << "expires_at", isoformat(StartTime) >> >>)}
        \cup {Object(<< << "created_at", t >>,
                        << "expires_at", isoformat(StartTime) >> >>) :
                  t \in BadTexts}
        \cup {Object(<< << "created_at", isoformat(StartTime) >>,
                        << "expires_at", t >> >>) : t \in BadTexts}
        \cup {Written(Session(StartTime, StartTime + 1, EXPIRED))}

\* The record of a storage call: its name, the Session it was given, what
\* the operating system did, the clock it saw, what it raised and returned.
StorageCall(op, arg, io, now, raised, ret) ==
    [op |-> op, arg |-> arg, io |-> io, now |-> now, raised |-> raised,
     ret |-> ret]

\* What is kept of the call before the last one: the Session of a save
\* that returned.
StorageShort(c) ==
    IF c.op = "save" /\ c.raised = "none"
    THEN [op |-> c.op, now |-> StartTime, raised |-> c.raised, ret |-> c.arg]
    ELSE [op |-> "other", now |-> StartTime, raised |-> "none", ret |-> None]

StorageInit ==
    /\ file \in Contents
    /\ clock = StartTime
    /\ settings = [session_duration_hours |-> 1]
    /\ last = StorageCall("none", None, "ok", StartTime, "none", None)
    /\ prev = StorageShort(last)

StorageSave ==
    \E s \in Sessions, io \in SaveOutcomes :
        LET saved == save(file, s, io)
        IN  /\ file' = saved.file
            /\ last' = StorageCall("save", Some(s), io.kind, clock,
                                   saved.raised, None)
            /\ prev' = StorageShort(last)
            /\ UNCHANGED <<clock, settings>>

StorageLoad ==
    \E io \in LoadOutcomes :
        LET loaded == load(file, clock, io)
        IN  /\ last' = StorageCall("load", None, io, clock, loaded.raised,
                                   loaded.ret)
            /\ prev' = StorageShort(last)
            /\ UNCHANGED <<file, clock, settings>>

StorageDelete ==
    \E io \in DeleteOutcomes :
        LET deleted == delete(file, io)
        IN  /\ file' = deleted.file
            /\ last' = StorageCall("delete", None, io, clock, deleted.raised,
                                   None)
            /\ prev' = StorageShort(last)
            /\ UNCHANGED <<clock, settings>>

StorageNext ==
    \/ StorageSave
    \/ StorageLoad
    \/ StorageDelete
    \/ Tick

StorageSpec == StorageInit /\ [][StorageNext]_vars

----------------------------------------------------------------------------
(* ClaudeClient on its own: the probe and the handshake applied to every   *)
(* way a launch of the tool can end and everything it can print.           *)

ExitCodes == {0, 1}

\* The JSON values an is_error member can have: true, false, null, 0, 1,
\* a non-empty string; or the member is absent.
IsErrorValues == {"absent", "true", "false", "null", "zero", "one", "text"}

Outputs ==
    {Text(t) : t \in {"empty", "blank", "not_json"}}
        \cup {Json(v) : v \in {"array", "string", "number", "null"}}
        \cup {Response(e, r) : e \in IsErrorValues, r \in {"absent", "present"}}

Processes ==
    {Exited(c, out) : c \in ExitCodes, out \in Outputs}
        \cup {Failed(k) : k \in {"timeout", "not_found", "os_error"}}

\* The record of a client call: its name, how the launch of the probe or
\* of the handshake ended, and what the call raised and returned.
ClientCall(op, probe, process, raised, msg, detail, ret, flag) ==
    [op |-> op, probe |-> probe, process |-> process, raised |-> raised,
     msg |-> msg, detail |-> detail, ret |-> ret, flag |-> flag]

\* What is kept of the call before the last one.
ClientShort(c) ==
    [op |-> c.op, now |-> StartTime, raised |-> c.raised, ret |-> None]

ClientInit ==
    /\ file = NoFile
    /\ clock = StartTime
    /\ settings = [session_duration_hours |-> 1]
    /\ last = ClientCall("none", "not_called", Failed("not_called"), "none",
                         "none", "none", None, FALSE)
    /\ prev = ClientShort(last)

TestConnection ==
    \E o \in ProbeOutcomes :
        LET probe == test_connection(o)
        IN  /\ last' = ClientCall("test_connection", o, Failed("not_called"),
                                  probe.raised, "none", "none", None, probe.ret)
            /\ prev' = ClientShort(last)
            /\ UNCHANGED <<file, clock, settings>>

SendMessage ==
    \E p \in Processes :
        LET sent == send_message(p)
        IN  /\ last' = ClientCall("send_message", "not_called", p, sent.raised,
                                  sent.msg, sent.detail, sent.ret, FALSE)
            /\ prev' = ClientShort(last)
            /\ UNCHANGED <<file, clock, settings>>

ClientNext ==
    \/ TestConnection
    \/ SendMessage

ClientSpec == ClientInit /\ [][ClientNext]_vars

----------------------------------------------------------------------------
(* Settings on its own: get_settings applied to every environment, and     *)
(* validate applied to Settings built directly.                            *)

\* Texts a numeric variable can hold: numbers above, at and below zero,
\* with one and two digits, and text that is not a number.
NumberTexts ==
    {<< "7" >>, << "0" >>, << "-", "1" >>, << "1", "2" >>, << "7", "x" >>}

FormatTexts == {"json", "text", "xml"}

Envs ==
    [SESSION_DURATION_HOURS : {None} \cup {Some(t) : t \in NumberTexts},
     SESSION_FILE_PATH : {None, Some("env.json")},
     CLAUDE_TIMEOUT_SECONDS : {None} \cup {Some(t) : t \in NumberTexts},
     CLAUDE_MAX_TURNS : {None} \cup {Some(t) : t \in NumberTexts},
     CLAUDE_OUTPUT_FORMAT : {None} \cup {Some(t) : t \in FormatTexts}]

NoEnv ==
    [SESSION_DURATION_HOURS |-> None, SESSION_FILE_PATH |-> None,
     CLAUDE_TIMEOUT_SECONDS |-> None, CLAUDE_MAX_TURNS |-> None,
     CLAUDE_OUTPUT_FORMAT |-> None]

\* Settings as the constructor accepts them, valid or not.
SettingsValues ==
    [session_duration_hours : Durations, session_file_path : {"session.json"},
     claude_timeout_seconds : {0, 1}, max_turns : {0, 1},
     output_format : FormatTexts]

\* The record of a call: its name, the environment or the Settings it was
\* applied to, what it raised and returned.
SettingsCall(op, env, arg, r) ==
    [op |-> op, env |-> env, arg |-> arg, raised |-> r.raised, msg |-> r.msg,
     ret |-> r.ret]

SettingsInit ==
    /\ file = NoFile
    /\ clock = StartTime
    /\ settings = [session_duration_hours |-> 1]
    /\ last = SettingsCall("none", NoEnv, None, Configured("none", "none", None))
    /\ prev = Short(NoCall, [window |-> None])

GetSettings ==
    \E env \in Envs :
        /\ last' = SettingsCall("get_settings", env, None, get_settings(env))
        /\ UNCHANGED <<file, clock, settings, prev>>

Validate ==
    \E s \in SettingsValues :
        /\ last' = SettingsCall("validate", NoEnv, Some(s), validate(s))
        /\ UNCHANGED <<file, clock, settings, prev>>

SettingsNext ==
    \/ GetSettings
    \/ Validate

SettingsSpec == SettingsInit /\ [][SettingsNext]_vars

----------------------------------------------------------------------------
(* Two processes on one session file.  Each has its own SessionManager;    *)
(* the file is all they share.  get_session_info and refresh_session are   *)
(* three steps each: the existence check of load, its open and read, and   *)
(* the save; the other process may run between them.  Every launch and     *)
(* every file operation succeeds here: Spec has the failures.              *)

Procs == {1, 2}

\* What a process holds inside get_session_info or refresh_session: where
\* it is, the Session it loaded, whether the other process completed an
\* activation since the load, and which of the two calls it is in.
Local(pc, session, overtaken) ==
    [pc |-> pc, session |-> session, overtaken |-> overtaken,
     op |-> "get_session_info"]

Idle == Local("idle", None, FALSE)

\* The record of a completed call: its name, the process, the file before
\* its last step, the clock, what it raised and returned, and what the
\* process held.
SharedCall(op, p, pre, now, raised, ret, local) ==
    [op |-> op, proc |-> p, pre |-> pre, now |-> now, raised |-> raised,
     ret |-> ret, local |-> local]

\* `updated_session = Session.from_data(...)` of the Session the process
\* loaded, and `self.storage.save(updated_session)` onto whatever the file
\* holds by then.
write_back_reloading(local, f, now, io) ==
    save(f, IF f.exists /\ f.closed THEN parsed(f.pairs, now)
            ELSE updated(local.session[1], now), io)

write_back(local, f, now, io) == save(f, updated(local.session[1], now), io)

SharedInit ==
    /\ file = NoFile
    /\ clock = StartTime
    /\ settings \in [session_duration_hours : 1 .. MaxDuration]
    /\ last = SharedCall("none", 1, NoFile, StartTime, "none", None, Idle)
    /\ prev = [p \in Procs |-> Idle]

\* A whole activate_session of process p; every process that has loaded
\* and not yet saved is overtaken by it.
SharedActivate(p) ==
    LET r == activate_session(file, settings.session_duration_hours,
                              "exit_zero", Answered, clock,
                              [kind |-> "ok", n |-> 3])
    IN  /\ prev[p].pc = "idle"
        /\ file' = r.file
        /\ last' = SharedCall("activate_session", p, file, clock, r.raised,
                              r.ret, prev[p])
        /\ prev' = [q \in Procs |->
                        IF prev[q].pc = "loaded"
                        THEN [prev[q] EXCEPT !.overtaken = TRUE]
                        ELSE prev[q]]
        /\ UNCHANGED <<clock, settings>>

\* A whole delete_session of process p.
SharedDelete(p) ==
    LET r == delete_session(file, "ok")
    IN  /\ prev[p].pc = "idle"
        /\ file' = r.file
        /\ last' = SharedCall("delete_session", p, file, clock, r.raised,
                              None, prev[p])
        /\ UNCHANGED <<clock, settings, prev>>

\* The first step of `session = self.get_current_session()`, in
\* get_session_info or refresh_session: load's `if not self.exists():
\* return None`, and the caller's `if not session` after it.  On absent
\* storage the call ends here.
LoadCheck(p, op) ==
    /\ prev[p].pc = "idle"
    /\ IF ~ exists(file)
       THEN /\ last' = SharedCall(op, p, file, clock, "SessionNotFoundError",
                                  None, prev[p])
            /\ UNCHANGED prev
       ELSE /\ prev' = [prev EXCEPT ![p] = [Local("checked", None, FALSE)
                                               EXCEPT !.op = op]]
            /\ UNCHANGED last
    /\ UNCHANGED <<file, clock, settings>>

\* The try block of load on the file as it is by now.  What it raises ends
\* the call.
LoadRead(p) ==
    LET r == read(file, clock, "ok")
    IN  /\ prev[p].pc = "checked"
        /\ IF r.raised # "none"
           THEN /\ last' = SharedCall(prev[p].op, p, file, clock, r.raised,
                                      None, prev[p])
                /\ prev' = [prev EXCEPT ![p] = Idle]
           ELSE /\ prev' = [prev EXCEPT ![p] = [Local("loaded", r.ret, FALSE)
                                                   EXCEPT !.op = prev[p].op]]
                /\ UNCHANGED last
        /\ UNCHANGED <<file, clock, settings>>

\* The rest of get_session_info: from_data at the clock of now, save,
\* return.
InfoSave(p) ==
    LET saved == write_back(prev[p], file, clock, [kind |-> "ok", n |-> 3])
    IN  /\ prev[p].pc = "loaded"
        /\ prev[p].op = "get_session_info"
        /\ file' = saved.file
        /\ last' = SharedCall("get_session_info", p, file, clock, saved.raised,
                              Some(updated(prev[p].session[1], clock)), prev[p])
        /\ prev' = [prev EXCEPT ![p] = Idle]
        /\ UNCHANGED <<clock, settings>>

\* The rest of refresh_session: `if current_session.is_expired`, then
\* create_active, save, return.
RefreshSave(p) ==
    LET current_session == prev[p].session[1]
        new_session == refreshed(current_session, clock,
                                 settings.session_duration_hours)
        saved == save(file, new_session, [kind |-> "ok", n |-> 3])
    IN  /\ prev[p].pc = "loaded"
        /\ prev[p].op = "refresh_session"
        /\ IF expired(current_session, clock)
           THEN /\ last' = SharedCall("refresh_session", p, file, clock,
                                      "SessionExpiredError", None, prev[p])
                /\ UNCHANGED file
           ELSE /\ last' = SharedCall("refresh_session", p, file, clock,
                                      saved.raised, Some(new_session), prev[p])
                /\ file' = saved.file
        /\ prev' = [prev EXCEPT ![p] = Idle]
        /\ UNCHANGED <<clock, settings>>

SharedNext ==
    \/ \E p \in Procs : SharedActivate(p)
    \/ \E p \in Procs : SharedDelete(p)
    \/ \E p \in Procs : LoadCheck(p, "get_session_info")
    \/ \E p \in Procs : LoadCheck(p, "refresh_session")
    \/ \E p \in Procs : LoadRead(p)
    \/ \E p \in Procs : InfoSave(p)
    \/ \E p \in Procs : RefreshSave(p)
    \/ Tick

SharedSpec == SharedInit /\ [][SharedNext]_vars

----------------------------------------------------------------------------
(* Properties of activate_session *)

Activated == last.op = "activate_session"

Duration == settings.session_duration_hours

\* C1: when the probe returns false, activate_session raises
\* ClaudeClientError, calls neither send_message nor save, and leaves the
\* file as it was before the call.
C1_ProbeFalseFailsClean ==
    (Activated /\ last.probe = "false") =>
        /\ last.raised = "ClaudeClientError"
        /\ Count(last.calls, "send_message") = 0
        /\ Count(last.calls, "save") = 0
        /\ file = last.pre

\* A probe returned false while a complete record was stored.
C1_Witness ==
    /\ Activated
    /\ last.probe = "false"
    /\ last.pre.exists /\ last.pre.closed

\* C2: when the probe returns true and the handshake raises,
\* activate_session raises the wrapped "could not activate"
\* ClaudeClientError, never calls save, and leaves the file as it was.
C2_HandshakeFailsClean ==
    (Activated /\ last.probe = "true" /\ last.sent = "raised") =>
        /\ last.raised = "ClaudeClientError"
        /\ last.msg = "could_not_activate"
        /\ Count(last.calls, "save") = 0
        /\ file = last.pre

\* The handshake raised after a true probe while a complete record was stored.
C2_Witness ==
    /\ Activated
    /\ last.probe = "true"
    /\ last.sent = "raised"
    /\ last.pre.exists /\ last.pre.closed

\* C3: an activate_session that returns made exactly one save, and the
\* Session it wrote and returned has created_at = the clock it read,
\* expires_at = created_at + the configured hours, and status Active.
C3_SuccessWritesOnce ==
    (Activated /\ last.raised = "none") =>
        /\ Count(last.calls, "save") = 1
        /\ last.ret = Some(Session(last.now, last.now + Duration, ACTIVE))
        /\ file = Written(last.ret[1])

\* An activation succeeded after the clock had advanced, over a stored
\* record of an earlier activation.
C3_Witness ==
    /\ Activated
    /\ last.raised = "none"
    /\ last.now > StartTime
    /\ last.pre.exists /\ last.pre.closed
    /\ last.pre # file

\* C4: after an activate_session, whatever its outcome, the file is either
\* what it was before the call or the complete new record.
C4_AllOrNothing ==
    Activated =>
        \/ file = last.pre
        \/ file = Written(create_active(last.now, last.now + Duration))

----------------------------------------------------------------------------
(* Properties of the Session entity, under SessionSpec *)

\* C5: from_data keeps both timestamps and derives the status from the
\* clock alone: Active when expires_at > now, Expired when expires_at <= now.
C5_FromDataDerivesStatus ==
    last.op = "from_data" =>
        /\ ~ IsNone(last.ret)
        /\ last.ret[1].created_at = last.created_at
        /\ last.ret[1].expires_at = last.expires_at
        /\ last.expires_at > last.now => last.ret[1].status = ACTIVE
        /\ last.expires_at <= last.now => last.ret[1].status = EXPIRED

\* from_data was given a session that expires at exactly the current time.
C5_Witness ==
    /\ last.op = "from_data"
    /\ last.expires_at = last.now
    /\ last.now > StartTime

\* C6: is_active is true exactly when the stored status is Active and
\* expires_at is strictly after the clock, and is_expired is its negation.
C6_IsActiveDoubleCheck ==
    LET valid == last.status = ACTIVE /\ last.expires_at > last.now
    IN  /\ last.op = "is_active" => (last.flag <=> valid)
        /\ last.op = "is_expired" => (last.flag <=> ~ valid)

\* is_active was read from a Session whose status is still Active although
\* its expiry has passed.
C6_Witness ==
    /\ last.op = "is_active"
    /\ last.status = ACTIVE
    /\ last.expires_at < last.now
    /\ ~ last.flag

\* C7: create_active returns a Session with the given timestamps and status
\* Active for every pair of timestamps; it never fails.
C7_CreateActiveUnconditional ==
    last.op = "create_active" =>
        last.ret = Some(Session(last.created_at, last.expires_at, ACTIVE))

\* create_active was given an expiry that is in the past and before the
\* creation time.
C7_Witness ==
    /\ last.op = "create_active"
    /\ last.expires_at < last.now
    /\ last.expires_at < last.created_at
    /\ ~ IsNone(last.ret)

----------------------------------------------------------------------------
(* Properties of get_session_info *)

Informed == last.op = "get_session_info"

\* C8: a get_session_info that returns over a stored record returns the
\* stored created_at and expires_at with the status derived from the clock
\* it read, whatever status was stored, and wrote exactly that Session back
\* with exactly one save.
C8_InfoRederivesAndWritesBack ==
    (Informed /\ last.pre.exists /\ last.raised = "none") =>
        LET expires_at == Stored(last.pre, "expires_at")
        IN  /\ last.ret =
                Some(Session(Stored(last.pre, "created_at"), expires_at,
                             IF expires_at > last.now THEN ACTIVE ELSE EXPIRED))
            /\ Count(last.calls, "save") = 1
            /\ file = Written(last.ret[1])

\* get_session_info returned Expired for a record stored as active.
C8_Witness ==
    /\ Informed
    /\ last.raised = "none"
    /\ last.pre.exists
    /\ Value(last.pre.pairs, "status") = ACTIVE
    /\ last.ret[1].status = EXPIRED

\* C9: get_session_info on absent storage raises SessionNotFoundError, makes
\* no save and leaves the storage absent.
C9_InfoNotFound ==
    (Informed /\ ~ last.pre.exists) =>
        /\ last.raised = "SessionNotFoundError"
        /\ Count(last.calls, "save") = 0
        /\ file = NoFile

\* get_session_info was called on absent storage.
C9_Witness ==
    /\ Informed
    /\ ~ last.pre.exists
    /\ last.raised = "SessionNotFoundError"

\* Two get_session_info calls in a row returned, the second reading the
\* clock value the first read.
InformedTwice ==
    /\ prev.op = "get_session_info"
    /\ prev.raised = "none"
    /\ Informed
    /\ last.raised = "none"
    /\ last.now = prev.now

\* C10: two consecutive get_session_info calls with no clock change return
\* Sessions with the same created_at, expires_at and status, and the second
\* leaves the file the first left.
C10_InfoIdempotent ==
    InformedTwice =>
        /\ last.ret[1].created_at = prev.ret[1].created_at
        /\ last.ret[1].expires_at = prev.ret[1].expires_at
        /\ last.ret[1].status = prev.ret[1].status
        /\ file = last.pre

\* The two calls happened after the clock had advanced, on a session created
\* at a two-digit hour.
C10_Witness ==
    /\ InformedTwice
    /\ last.now > StartTime
    /\ last.ret[1].created_at >= 10

----------------------------------------------------------------------------
(* Properties of is_session_active *)

Asked == last.op = "is_session_active"

\* A complete record: what a save that returned leaves.
Record(f) == f.exists /\ f.closed /\ f.value = "object"

\* The value of the call's latest datetime.now().
LastRead == last.reads[Len(last.reads)]

\* C11: an is_session_active that returns gives false on absent storage,
\* true when the stored expires_at is strictly after the current time (its
\* latest clock read), and false when it is at or before it.
C11_ActiveIffBeforeExpiry ==
    (Asked /\ last.raised = "none") =>
        /\ ~ last.pre.exists => ~ last.flag
        /\ last.pre.exists =>
               (last.flag <=> Stored(last.pre, "expires_at") > LastRead)

\* is_session_active returned false for a record stored as active whose
\* expiry passed between the load and the check.
C11_Witness ==
    /\ Asked
    /\ last.raised = "none"
    /\ Record(last.pre)
    /\ Value(last.pre.pairs, "status") = ACTIVE
    /\ Len(last.reads) = 2
    /\ last.reads[1] < Stored(last.pre, "expires_at")
    /\ Stored(last.pre, "expires_at") <= last.reads[2]
    /\ ~ last.flag

\* C12: is_session_active never writes: whatever the file holds and whatever
\* the call returns or raises, it makes no save and no delete and leaves the
\* file as it was.
C12_AskingNeverWrites ==
    Asked =>
        /\ file = last.pre
        /\ Count(last.calls, "save") = 0
        /\ Count(last.calls, "delete") = 0

\* is_session_active returned false for a record whose stored status is
\* active although its expiry has passed.
C12_Witness ==
    /\ Asked
    /\ last.raised = "none"
    /\ Record(last.pre)
    /\ Value(last.pre.pairs, "status") = ACTIVE
    /\ Stored(last.pre, "expires_at") <= last.reads[1]
    /\ ~ last.flag

----------------------------------------------------------------------------
(* Properties of delete_session *)

Deleted == last.op = "delete_session"

\* C13: a delete_session that returns leaves the storage absent; on absent
\* storage it does not raise and leaves it absent; and a delete_session that
\* follows one that returned finds the storage absent, does not raise and
\* changes nothing.
C13_DeleteIdempotent ==
    /\ (Deleted /\ last.raised = "none") => file = NoFile
    /\ (Deleted /\ ~ last.pre.exists) => (last.raised = "none" /\ file = NoFile)
    /\ (Deleted /\ prev.op = "delete_session" /\ prev.raised = "none") =>
           /\ last.pre = NoFile
           /\ last.raised = "none"
           /\ file = last.pre

\* delete_session was called right after a delete_session that returned.
C13_Witness ==
    /\ Deleted
    /\ prev.op = "delete_session"
    /\ prev.raised = "none"
    /\ file = NoFile

----------------------------------------------------------------------------
(* Properties of FileSessionStorage *)

Loaded == last.op = "load"

\* The load follows a save that returned.
LoadedAfterSave == Loaded /\ prev.op = "save" /\ prev.raised = "none"

\* C14: a load that follows a save(s) and can read the file returns a
\* Session with the created_at and expires_at of s, whose status is Active
\* exactly when expires_at is after the clock at the load, whatever status
\* s had.
C14_RoundTrip ==
    (LoadedAfterSave /\ last.io = "ok") =>
        /\ last.raised = "none"
        /\ last.ret = Some(Session(prev.ret[1].created_at,
                                   prev.ret[1].expires_at,
                                   IF prev.ret[1].expires_at > last.now
                                   THEN ACTIVE ELSE EXPIRED))

\* A Session saved as Expired was loaded as Active, its expiry crossing
\* from a one-digit to a two-digit hour.
C14_Witness ==
    /\ LoadedAfterSave
    /\ prev.ret[1].status = EXPIRED
    /\ prev.ret[1].created_at = 9
    /\ prev.ret[1].expires_at >= 10
    /\ last.raised = "none"
    /\ last.ret[1].status = ACTIVE

\* The file holds what load can turn into a Session.
Usable(f) ==
    /\ Record(f)
    /\ HasKey(f.pairs, "created_at") /\ HasKey(f.pairs, "expires_at")
    /\ IsIsoText(Value(f.pairs, "created_at"))
    /\ IsIsoText(Value(f.pairs, "expires_at"))

\* C15: load returns None only when the file is absent; on a file that is
\* present and not usable it raises StorageError, and it raises nothing
\* but StorageError.
C15_LoadFailsWithStorageError ==
    Loaded =>
        /\ last.raised \in {"none", "StorageError"}
        /\ (last.raised = "none" /\ IsNone(last.ret)) => ~ file.exists
        /\ (file.exists /\ ~ Usable(file)) => last.raised = "StorageError"

----------------------------------------------------------------------------
(* Properties of refresh_session *)

Refreshed == last.op = "refresh_session"

\* The load of the call returned a Session: it read the clock.
LoadedRecord == Len(last.reads) >= 1

\* C16: a refresh_session on a stored session whose expires_at is at or
\* before the current time raises SessionExpiredError; whenever it raises
\* SessionExpiredError the session had expired by its latest clock read, no
\* save was made and the file is as it was; on absent storage it raises
\* SessionNotFoundError and the storage stays absent.
C16_RefreshRejectsExpired ==
    /\ (Refreshed /\ LoadedRecord
            /\ Stored(last.pre, "expires_at") <= last.reads[1]) =>
           last.raised = "SessionExpiredError"
    /\ (Refreshed /\ last.raised = "SessionExpiredError") =>
           /\ Stored(last.pre, "expires_at") <= LastRead
           /\ Count(last.calls, "save") = 0
           /\ file = last.pre
    /\ (Refreshed /\ ~ last.pre.exists) =>
           /\ last.raised = "SessionNotFoundError"
           /\ Count(last.calls, "save") = 0
           /\ file = NoFile

\* refresh_session raised SessionExpiredError on a record that is stored as
\* active and had expired when the call began.
C16_Witness ==
    /\ Refreshed
    /\ last.raised = "SessionExpiredError"
    /\ Value(last.pre.pairs, "status") = ACTIVE
    /\ Stored(last.pre, "expires_at") <= last.reads[1]
    /\ file = last.pre

\* The session was still active when refresh_session checked it.
ActiveAtCheck ==
    /\ Len(last.reads) >= 2
    /\ Stored(last.pre, "expires_at") > last.reads[2]

\* C17: a refresh_session on a stored session that is still active at the
\* check makes one save; when it returns, the Session it wrote and returned
\* has the stored created_at, expires_at = the current time (its latest
\* clock read) + the configured hours, and status Active.
C17_RefreshExtends ==
    /\ (Refreshed /\ ActiveAtCheck) =>
           /\ Count(last.calls, "save") = 1
           /\ last.raised \in {"none", "StorageError"}
    /\ (Refreshed /\ last.raised = "none") =>
           /\ ActiveAtCheck
           /\ last.ret = Some(Session(Stored(last.pre, "created_at"),
                                      LastRead + Duration, ACTIVE))
           /\ file = Written(last.ret[1])

\* refresh_session returned after the clock had advanced past the stored
\* created_at, and moved expires_at forward.
C17_Witness ==
    /\ Refreshed
    /\ last.raised = "none"
    /\ last.ret[1].created_at < LastRead
    /\ last.ret[1].created_at = Stored(last.pre, "created_at")
    /\ last.ret[1].expires_at > Stored(last.pre, "expires_at")

----------------------------------------------------------------------------
(* Properties of the lifecycle *)

\* The file holds a record that load can read.
Holds(f) == Record(f) /\ Len(f.pairs) = 3

\* C18: in every state (no record, Active record, Expired record, or
\* anything else in the file) an activate_session whose probe and handshake
\* succeed can complete, and one that completed has replaced the file with
\* an Active record created at the current time, whatever was stored.
C18_ActivationAlwaysEnabled ==
    /\ ENABLED (ActivateSession /\ last'.raised = "none"
                    /\ file' = Written(Session(clock, clock + Duration, ACTIVE)))
    /\ (Activated /\ last.probe = "true" /\ last.sent = "ok"
            /\ last.raised = "none") =>
           file = Written(Session(last.now, last.now + Duration, ACTIVE))

\* An activation completed over a stored record that had expired.
C18_Witness ==
    /\ Activated
    /\ last.raised = "none"
    /\ Holds(last.pre)
    /\ Stored(last.pre, "expires_at") <= last.now
    /\ Stored(last.pre, "created_at") < last.now
    /\ file # last.pre

Readers ==
    {"get_session_info", "is_session_active", "get_current_session",
     "refresh_session"}

\* C19: the storage goes from absent to holding a record only in an
\* activate_session that returns; get_session_info, is_session_active,
\* get_current_session and refresh_session on absent storage leave it absent.
C19_OnlyActivationCreates ==
    [][/\ (~ file.exists /\ Record(file')) =>
              (last'.op = "activate_session" /\ last'.raised = "none")
       /\ (~ file.exists /\ last' # last /\ last'.op \in Readers) =>
              ~ file'.exists]_vars

\* An activation created the record on absent storage, right after a
\* get_session_info that found nothing.
C19_Witness ==
    /\ Activated
    /\ last.raised = "none"
    /\ ~ last.pre.exists
    /\ Record(file)
    /\ prev.op = "get_session_info"
    /\ prev.raised = "SessionNotFoundError"

\* The file goes from present to absent only in a delete_session.
OnlyDeleteMakesAbsent ==
    [][(file.exists /\ ~ file'.exists) => last'.op = "delete_session"]_vars

\* C20: a stored record stops being stored only through delete_session:
\* the passage of time, get_session_info, is_session_active,
\* refresh_session and an activate_session that fails leave a record in
\* the storage.
C20_OnlyDeleteRemoves ==
    [][(Holds(file) /\ ~ Holds(file')) => last'.op = "delete_session"]_vars

----------------------------------------------------------------------------
(* Invariants of the stored record *)

Wrote == last.op \in {"activate_session", "refresh_session"}

\* C21: every record activate_session or refresh_session writes has
\* expires_at > created_at, whatever Settings the manager was given.
C21_ExpiresAfterCreated ==
    (Wrote /\ last.raised = "none") =>
        /\ file = Written(last.ret[1])
        /\ Stored(file, "expires_at") > Stored(file, "created_at")

\* C22: between two activate_session calls that return, the created_at of
\* the stored record does not change: every step from a stored record to a
\* stored record that is not such an activation (get_session_info,
\* is_session_active, get_current_session, refresh_session, the passage of
\* time) keeps created_at.
C22_CreatedAtSetOnce ==
    [][(/\ Holds(file)
        /\ Holds(file')
        /\ ~ (last'.op = "activate_session" /\ last'.raised = "none"))
           => Stored(file', "created_at") = Stored(file, "created_at")]_vars

\* A refresh_session that followed a get_session_info rewrote the record
\* after the clock had advanced, and created_at is still the stored one.
C22_Witness ==
    /\ Refreshed
    /\ last.raised = "none"
    /\ prev.op = "get_session_info"
    /\ prev.raised = "none"
    /\ file # last.pre
    /\ Stored(file, "created_at") = Stored(last.pre, "created_at")
    /\ Stored(file, "created_at") < clock

Saved == last.op = "save"

\* C23: the storage holds one record at most: after a save that returns
\* the file is exactly the record of that save, whatever it held before,
\* and a load that follows returns the timestamps of that save.
C23_LatestSaveOnly ==
    /\ (Saved /\ last.raised = "none") =>
           /\ file = Written(last.arg[1])
           /\ Len(file.pairs) = Len(session_data(last.arg[1]))
    /\ (LoadedAfterSave /\ last.raised = "none") =>
           /\ last.ret[1].created_at = prev.ret[1].created_at
           /\ last.ret[1].expires_at = prev.ret[1].expires_at
           /\ file = Written(prev.ret[1])

\* A save returned right after a save of a Session with other timestamps
\* had returned.
C23_Witness ==
    /\ Saved
    /\ last.raised = "none"
    /\ prev.op = "save"
    /\ prev.ret[1].created_at # last.arg[1].created_at
    /\ prev.ret[1].expires_at # last.arg[1].expires_at
    /\ file = Written(last.arg[1])

----------------------------------------------------------------------------
(* Properties of ClaudeClient *)

Probed == last.op = "test_connection"

\* C24: test_connection never raises: however the launch of the tool ends
\* it returns a boolean, true only when the tool exited with code 0.
C24_ProbeNeverRaises ==
    Probed =>
        /\ last.raised = "none"
        /\ last.flag <=> last.probe = "exit_zero"

Sending == last.op = "send_message"

\* The is_error flag of the response is set.
FlagSet(out) == out.is_error = "true"

\* The tool exited and printed a JSON object.
Responded(p) == p.kind = "exited" /\ p.out.text = "json" /\ p.out.value = "object"

\* The launches the handshake has to reject: a timeout, empty or blank
\* output, output that is not JSON, JSON that is not an object, a response
\* with the is_error flag set.
Rejected(p) ==
    \/ p.kind = "timeout"
    \/ /\ p.kind = "exited"
       /\ \/ p.out.text \in {"empty", "blank", "not_json"}
          \/ p.out.value # "object"
          \/ FlagSet(p.out)

\* C25: send_message raises ClaudeClientError and nothing else; it raises
\* it on every launch it has to reject; and when it returns, the tool
\* printed a JSON object whose is_error flag is not set, which is what it
\* returns.
C25_HandshakeFailsAsClientError ==
    Sending =>
        /\ last.raised \in {"none", "ClaudeClientError"}
        /\ Rejected(last.process) =>
               (last.raised = "ClaudeClientError" /\ IsNone(last.ret))
        /\ last.raised = "none" =>
               /\ Responded(last.process)
               /\ ~ FlagSet(last.process.out)
               /\ last.ret = Some(last.process.out)
        /\ (Responded(last.process)
                /\ last.process.out.is_error \in {"absent", "false"}) =>
               last.raised = "none"

\* send_message raised on a response whose is_error flag is set and that
\* has no result member, after the tool exited with code 0.
C25_Witness ==
    /\ Sending
    /\ last.process.kind = "exited"
    /\ last.process.code = 0
    /\ FlagSet(last.process.out)
    /\ last.process.out.result = "absent"
    /\ last.raised = "ClaudeClientError"
    /\ last.detail = "Unknown error"

----------------------------------------------------------------------------
(* Properties of the manager's calls to its collaborators *)

\* C26: one activate_session calls test_connection once and send_message
\* once at most; when the probe returns false or raises the call fails
\* after that one call, and when the handshake raises the call fails after
\* the one probe and the one handshake.
C26_NoRetry ==
    Activated =>
        /\ Count(last.calls, "test_connection") = 1
        /\ Count(last.calls, "send_message") <= 1
        /\ last.probe \in {"false", "raised"} =>
               (last.raised # "none" /\ last.calls = << "test_connection" >>)
        /\ last.sent = "raised" =>
               /\ last.raised # "none"
               /\ last.calls = << "test_connection", "send_message" >>

\* The handshake of an activation on absent storage raised, after one probe
\* and one handshake, and the storage is still absent.
C26_Witness ==
    /\ Activated
    /\ last.sent = "raised"
    /\ last.raised = "ClaudeClientError"
    /\ ~ last.pre.exists
    /\ ~ file.exists
    /\ Len(last.calls) = 2

Got == last.op = "get_current_session"

\* C27: get_current_session returns None on absent storage, returns the
\* Session load builds from a stored record (its timestamps, status by the
\* clock), raises the StorageError of a load that fails, and in every case
\* makes no save and no delete and leaves the file as it was.
C27_GetCurrentSessionReadsOnly ==
    Got =>
        /\ file = last.pre
        /\ last.calls = << "load" >>
        /\ ~ last.pre.exists => (last.raised = "none" /\ IsNone(last.ret))
        /\ (last.pre.exists /\ ~ Holds(last.pre)) => last.raised = "StorageError"
        /\ (last.pre.exists /\ last.raised = "none") =>
               /\ Holds(last.pre)
               /\ last.ret = Some(from_data(Stored(last.pre, "created_at"),
                                            Stored(last.pre, "expires_at"),
                                            LastRead))

\* get_current_session returned as Expired a record that is stored as
\* Active.
C27_Witness ==
    /\ Got
    /\ last.raised = "none"
    /\ Holds(last.pre)
    /\ Value(last.pre.pairs, "status") = ACTIVE
    /\ last.ret[1].status = EXPIRED
    /\ file = last.pre

----------------------------------------------------------------------------
(* Properties of get_settings *)

Asked_settings == last.op = "get_settings"

\* The number a numeric variable stands for, its default when unset.
Number(env, name, default) ==
    IF IsNone(env[name]) THEN default ELSE int(env[name][1])

\* The environment is one get_settings has to refuse: a numeric variable
\* is set to text that is not a number, or stands for zero or less, or the
\* output format is set to something other than json and text.
Refused(env) ==
    \/ \E name \in NumberVars :
           ~ IsNone(env[name]) /\ ~ IsIntText(env[name][1])
    \/ \E name \in NumberVars :
           /\ ~ IsNone(env[name])
           /\ IsIntText(env[name][1])
           /\ int(env[name][1]) <= 0
    \/ /\ ~ IsNone(env.CLAUDE_OUTPUT_FORMAT)
       /\ env.CLAUDE_OUTPUT_FORMAT[1] \notin {"json", "text"}

\* C28: get_settings raises ConfigurationError and returns nothing on
\* every environment it has to refuse; on every other environment it
\* returns Settings holding the values set and, for the variables unset,
\* duration 5, timeout 10, max turns 1 and format json.
C28_SettingsFailFast ==
    Asked_settings =>
        /\ Refused(last.env) =>
               (last.raised = "ConfigurationError" /\ IsNone(last.ret))
        /\ ~ Refused(last.env) =>
               /\ last.raised = "none"
               /\ last.ret =
                      Some([session_duration_hours |->
                                Number(last.env, "SESSION_DURATION_HOURS", 5),
                            session_file_path |->
                                IF IsNone(last.env.SESSION_FILE_PATH)
                                THEN "session.json"
                                ELSE last.env.SESSION_FILE_PATH[1],
                            claude_timeout_seconds |->
                                Number(last.env, "CLAUDE_TIMEOUT_SECONDS", 10),
                            max_turns |->
                                Number(last.env, "CLAUDE_MAX_TURNS", 1),
                            output_format |->
                                IF IsNone(last.env.CLAUDE_OUTPUT_FORMAT)
                                THEN "json"
                                ELSE last.env.CLAUDE_OUTPUT_FORMAT[1]])

\* get_settings refused an environment whose only fault is max turns 0.
C28_Witness ==
    /\ Asked_settings
    /\ last.env.CLAUDE_MAX_TURNS = Some(<< "0" >>)
    /\ IsNone(last.env.SESSION_DURATION_HOURS)
    /\ IsNone(last.env.CLAUDE_TIMEOUT_SECONDS)
    /\ IsNone(last.env.CLAUDE_OUTPUT_FORMAT)
    /\ last.raised = "ConfigurationError"
    /\ last.msg = "Max turns must be positive"

----------------------------------------------------------------------------
(* Properties of two processes on one file *)

WroteBack == last.op = "get_session_info" /\ last.raised = "none"

\* C29: the save of get_session_info stores the timestamps its process
\* loaded, whatever the file holds by then: when the other process has
\* completed an activation in between, the record of that activation is
\* replaced by the older one.
C29_WriteBackStoresWhatWasLoaded ==
    WroteBack =>
        /\ file = Written(from_data(last.local.session[1].created_at,
                                    last.local.session[1].expires_at,
                                    last.now))
        /\ last.ret = Some(from_data(last.local.session[1].created_at,
                                     last.local.session[1].expires_at,
                                     last.now))

\* A get_session_info wrote back after the other process had completed an
\* activation: the file held the record of that activation and now holds
\* the record created before it.
C29_Witness ==
    /\ WroteBack
    /\ last.local.overtaken
    /\ last.pre.exists /\ last.pre.closed
    /\ Stored(file, "created_at") < Stored(last.pre, "created_at")
    /\ Stored(file, "expires_at") < Stored(last.pre, "expires_at")
    /\ Stored(file, "created_at") = last.local.session[1].created_at

Loading == last.op \in {"get_session_info", "refresh_session"}

Created == ~ file.exists /\ file'.exists

\* C36 as stated: storage that holds no record, after a delete_session
\* returned, holds none after every step but an activate_session that
\* returns, also when the other process is between the load and the save of
\* its get_session_info.
C36_DeleteIsLasting ==
    [][Created => last'.op = "activate_session"]_vars

\* C36 as amended: when delete_session returns the storage holds no record,
\* and from then on a record appears only through an activate_session that
\* returns or through the save of a get_session_info or refresh_session
\* that had loaded the record before the delete; that save stores the
\* record it loaded once more.
C36_DeleteLastsUntilSave ==
    /\ [] (Deleted => (last.raised = "none" /\ ~ file.exists))
    /\ [][Created =>
            \/ last'.op = "activate_session" /\ last'.raised = "none"
            \/ /\ Loading'
               /\ last'.raised = "none"
               /\ last'.local.pc = "loaded"
               /\ Stored(file', "created_at") =
                      last'.local.session[1].created_at]_vars

\* The write-back of a get_session_info found the file deleted and stored
\* the record its process had loaded before the delete.
C36_Witness ==
    /\ WroteBack
    /\ ~ last.pre.exists
    /\ Holds(file)
    /\ Stored(file, "expires_at") = last.local.session[1].expires_at

\* C37 as stated: a load that finds the file removed between its existence
\* check and its open reports no session, not a StorageError.
C37_RemovedFileIsNoSession ==
    (Loading /\ last.local.pc = "checked" /\ ~ last.pre.exists) =>
        last.raised # "StorageError"

\* C37 as amended: a load whose existence check finds no file returns None
\* (the call raises SessionNotFoundError); a load whose open finds the file
\* returns the session; a load that finds the file removed between its
\* existence check and its open raises StorageError.
C37_RemovedFileIsStorageError ==
    /\ (Loading /\ last.local.pc = "idle") =>
           (~ last.pre.exists /\ last.raised = "SessionNotFoundError")
    /\ (Loading /\ last.local.pc = "checked") =>
           (~ last.pre.exists /\ last.raised = "StorageError")
    /\ \A p \in Procs :
           prev[p].pc = "loaded" => ~ IsNone(prev[p].session)

\* The other process deleted the file after this one's existence check, and
\* the get_session_info ended in StorageError.
C37_Witness ==
    /\ last.op = "get_session_info"
    /\ last.local.pc = "checked"
    /\ ~ last.pre.exists
    /\ last.raised = "StorageError"

----------------------------------------------------------------------------
(* Properties of the stored status *)

WroteRecord ==
    /\ last.op \in {"activate_session", "get_session_info", "refresh_session"}
    /\ last.raised = "none"

\* C30: every Active record that activate_session, get_session_info or
\* refresh_session writes has expires_at strictly after the clock the call
\* read when it built the record.
C30_ActiveWasUnexpiredWhenWritten ==
    (WroteRecord /\ last.ret[1].status = ACTIVE) =>
        /\ file = Written(last.ret[1])
        /\ last.ret[1].expires_at > LastRead

----------------------------------------------------------------------------
(* The two status queries on every stored record: the storage starts with
   any complete record, whatever its persisted status, and only
   is_session_active and get_session_info are called. *)

\* What is kept of the call before the last one: its answer and the clock
\* values it read.
QueryShort(c) ==
    [op |-> c.op, raised |-> c.raised, ret |-> c.ret, flag |-> c.flag,
     reads |-> c.reads]

QueryInit ==
    /\ file \in {Written(s) : s \in Sessions}
    /\ clock = StartTime
    /\ settings = [session_duration_hours |-> 1]
    /\ last = NoCall
    /\ prev = QueryShort(NoCall)

QueryDone(op, r, now) ==
    /\ file' = r.file
    /\ clock' = now
    /\ prev' = QueryShort(last)
    /\ last' = Call(op, file, r, now)
    /\ UNCHANGED settings

QueryAsk ==
    \E lio \in LoadOutcomes, now2 \in clock .. MaxTime :
        QueryDone("is_session_active",
                  is_session_active(file, clock, now2, lio), now2)

QueryInfo ==
    \E lio \in LoadOutcomes, io \in SaveOutcomes, now2 \in clock .. MaxTime :
        /\ lio # "ok" => io.kind = "ok"
        /\ QueryDone("get_session_info",
                     get_session_info(file, clock, now2, lio, io), now2)

QueryNext ==
    \/ QueryAsk
    \/ QueryInfo
    \/ Tick

QuerySpec == QueryInit /\ [][QueryNext]_vars

\* The last two calls read the same clock value at each of their looks.
SameClock ==
    \A i \in 1 .. Len(prev.reads) :
        \A j \in 1 .. Len(last.reads) : prev.reads[i] = last.reads[j]

\* C33: on every storage state holding a complete record and at every
\* clock value, is_session_active returns true exactly when
\* get_session_info called at the same clock value returns status Active,
\* whatever status the record persists; the same holds of an
\* is_session_active that follows the get_session_info.
C33_QueriesAgree ==
    /\ (/\ Informed
        /\ last.raised = "none"
        /\ prev.op = "is_session_active"
        /\ prev.raised = "none"
        /\ SameClock)
           => (prev.flag <=> last.ret[1].status = ACTIVE)
    /\ (/\ Asked
        /\ last.raised = "none"
        /\ prev.op = "get_session_info"
        /\ prev.raised = "none"
        /\ SameClock)
           => (last.flag <=> prev.ret[1].status = ACTIVE)

\* On a record persisted as Expired whose expires_at is still ahead,
\* is_session_active answered true and get_session_info at the same clock
\* value returned Active.
C33_Witness ==
    /\ Informed
    /\ last.raised = "none"
    /\ prev.op = "is_session_active"
    /\ prev.raised = "none"
    /\ SameClock
    /\ Value(last.pre.pairs, "status") = EXPIRED
    /\ prev.flag
    /\ last.ret[1].status = ACTIVE

----------------------------------------------------------------------------
(* The lifetime of a session *)

InWindow == ~ IsNone(prev.window)

\* C31: after an activate_session that returned at time t0 with the
\* configured duration D, and as long as no activate_session,
\* refresh_session or delete_session is called, every is_session_active
\* that returns gives true when its clock is before t0 + D and false when
\* its clock is at or after t0 + D; the only way it does not return is a
\* StorageError.
C31_ValidityWindow ==
    (Asked /\ InWindow) =>
        /\ last.raised \in {"none", "StorageError"}
        /\ last.raised = "none" =>
               (last.flag <=> LastRead < prev.window[1] + Duration)

\* An is_session_active at exactly t0 + D, after a get_session_info in
\* between, answered false.
C31_Witness ==
    /\ Asked
    /\ InWindow
    /\ prev.op = "get_session_info"
    /\ last.raised = "none"
    /\ Duration > 0
    /\ LastRead = prev.window[1] + Duration
    /\ ~ last.flag

\* The record the call found was already expired at the call's first look
\* at the clock.
FoundExpired ==
    /\ Holds(last.pre)
    /\ LoadedRecord
    /\ Stored(last.pre, "expires_at") <= last.reads[1]

ExpiredAnswers ==
    FoundExpired =>
        /\ (Informed /\ last.raised = "none") => last.ret[1].status = EXPIRED
        /\ (Asked /\ last.raised = "none") => ~ last.flag
        /\ Refreshed => last.raised # "none" /\ file = last.pre

StaysExpired ==
    (/\ Holds(file)
     /\ Stored(file, "expires_at") <= clock
     /\ Holds(file')
     /\ ~ (last'.op = "activate_session" /\ last'.raised = "none"))
        => Stored(file', "expires_at") <= clock'

\* C32: once the stored record's expires_at is at or before the clock,
\* every get_session_info that returns gives status Expired, every
\* is_session_active that returns gives false and every refresh_session
\* fails and leaves the record as it was; and the stored record stays
\* expired at every step except an activate_session that returns.
C32_ExpiryStable == [] ExpiredAnswers /\ [][StaysExpired]_vars

\* A refresh_session on a record that expired, after a get_session_info
\* had already reported it Expired, was refused and the record is still
\* the expired one.
C32_Witness ==
    /\ Refreshed
    /\ FoundExpired
    /\ last.raised = "SessionExpiredError"
    /\ prev.op = "get_session_info"
    /\ prev.raised = "none"
    /\ prev.ret[1].status = EXPIRED
    /\ Stored(file, "expires_at") > Stored(file, "created_at")

\* C34: with a positive configured duration, a refresh_session that
\* returns never shortens the session: the expires_at it stores is greater
\* than or equal to the expires_at of the record it replaced (a record an
\* activate_session or an earlier refresh_session of this manager wrote).
C34_RefreshNeverShortens ==
    (Refreshed /\ last.raised = "none" /\ Duration > 0) =>
        /\ file = Written(last.ret[1])
        /\ Stored(file, "expires_at") >= Stored(last.pre, "expires_at")

\* A refresh_session after the clock had advanced stored a later
\* expires_at than the one it found.
C34_Witness ==
    /\ Refreshed
    /\ last.raised = "none"
    /\ Duration > 0
    /\ Stored(file, "expires_at") > Stored(last.pre, "expires_at")
    /\ Stored(last.pre, "expires_at") > Stored(last.pre, "created_at")

\* C35: the write-back of get_session_info stores the timestamps it found
\* and nothing but the three fields; the only thing it can change is the
\* status, and only from Active to Expired: a record stored as Expired is
\* stored as Expired again.
C35_WriteBackOnlyExpires ==
    (Informed /\ last.raised = "none") =>
        /\ Holds(file)
        /\ Stored(file, "created_at") = Stored(last.pre, "created_at")
        /\ Stored(file, "expires_at") = Stored(last.pre, "expires_at")
        /\ Value(file.pairs, "status") \in {ACTIVE, EXPIRED}
        /\ Value(last.pre.pairs, "status") = EXPIRED
               => Value(file.pairs, "status") = EXPIRED
        /\ Value(file.pairs, "status") # Value(last.pre.pairs, "status")
               => (/\ Value(last.pre.pairs, "status") = ACTIVE
                   /\ Stored(file, "expires_at") <= LastRead)

\* A second get_session_info on a record already stored as Expired wrote
\* it back unchanged.
C35_Witness ==
    /\ InformedTwice
    /\ last.raised = "none"
    /\ Value(last.pre.pairs, "status") = EXPIRED
    /\ file = last.pre
    /\ Stored(file, "expires_at") > Stored(file, "created_at")

----------------------------------------------------------------------------
(* Properties of an unreadable record *)

\* The call found a file and its load failed: the file is not a complete
\* record, or reading it failed.
LoadFailed ==
    /\ last.op \in {"get_session_info", "is_session_active", "refresh_session"}
    /\ last.pre.exists
    /\ ~ Holds(last.pre) \/ last.reads = << >>

\* C38: when load fails with StorageError on the stored record,
\* get_session_info, is_session_active and refresh_session raise that
\* StorageError, call nothing after the load (no save), return nothing and
\* leave the file as it was.
C38_UnreadableIsSurfaced ==
    LoadFailed =>
        /\ last.raised = "StorageError"
        /\ last.calls = << "load" >>
        /\ IsNone(last.ret)
        /\ ~ last.flag
        /\ file = last.pre

\* is_session_active on the partial file a failed write-back of
\* get_session_info left behind raised StorageError and left the file.
C38_Witness ==
    /\ Asked
    /\ LoadFailed
    /\ ~ last.pre.closed
    /\ prev.op = "get_session_info"
    /\ prev.raised = "StorageError"
    /\ last.raised = "StorageError"
    /\ file = last.pre

----------------------------------------------------------------------------
(* The two SessionManager variants side by side.                            *)
(* services/session_manager.py works on FileSessionStorage and             *)
(* domain/models.py; claude_code_session_manager/services/                  *)
(* session_manager.py imports its Session and its storage from              *)
(* claude_code_session_manager.domain and .infrastructure.storage, which    *)
(* are described by sections 3, 4.1 and 6 of the specification and by       *)
(* tests/domain/test_models.py.  Both are handed the same results of        *)
(* test_connection() and send_message(), and every file operation           *)
(* succeeds.                                                                *)

\* Session.create_active: status Active whatever the timestamps.
createActive(created_at, expires_at) == Session(created_at, expires_at, ACTIVE)

\* Session.from_data: Active iff expires_at is strictly after the clock.
fromPersisted(created_at, expires_at, now) ==
    Session(created_at, expires_at,
            IF expires_at > now THEN ACTIVE ELSE EXPIRED)

\* Session.is_active: stored status Active and expires_at still ahead.
isActive(s, now) == s.status = ACTIVE /\ s.expires_at > now

\* The storage collaborator holds zero or one record: None, or the three
\* fields of the Session last saved.
persisted(store, s) == Some(s)

\* load: absent gives None, a record is rebuilt with from_data.
loaded(store, now) ==
    IF IsNone(store) THEN None
    ELSE Some(fromPersisted(store[1].created_at, store[1].expires_at, now))

\* delete: idempotent.
deleted(store) == None

\* What a call of the second variant did: the store after it, what it
\* raised, its message, what it returned.
Outcome2(store) ==
    [store |-> store, raised |-> "none", msg |-> "none", ret |-> None,
     flag |-> FALSE]

activate_session2(store, d, probe, sent, now) ==
    LET created_at == now
        expires_at == created_at + d
        session == createActive(created_at, expires_at)
    IN  IF probe.raised # "none"
        THEN [Outcome2(store) EXCEPT !.raised = probe.raised]
        ELSE IF ~ probe.ret
        THEN [Outcome2(store) EXCEPT !.raised = "ClaudeClientError",
                                     !.msg = "not_available"]
        ELSE IF sent.raised = "ClaudeClientError"
        THEN [Outcome2(store) EXCEPT !.raised = "ClaudeClientError",
                                     !.msg = "could_not_activate"]
        ELSE [Outcome2(persisted(store, session)) EXCEPT !.ret = Some(session)]

get_current_session2(store, now) ==
    [Outcome2(store) EXCEPT !.ret = loaded(store, now)]

get_session_info2_reading(store, now1, now2) ==
    LET session == get_current_session2(store, now1).ret
    IN  IF IsNone(session)
        THEN [Outcome2(store) EXCEPT !.raised = "SessionNotFoundError"]
        ELSE [Outcome2(store) EXCEPT
                  !.ret = Some(fromPersisted(session[1].created_at,
                                             session[1].expires_at, now2))]

get_session_info2(store, now1, now2) ==
    LET session == get_current_session2(store, now1).ret
        updated_session == fromPersisted(session[1].created_at,
                                         session[1].expires_at, now2)
    IN  IF IsNone(session)
        THEN [Outcome2(store) EXCEPT !.raised = "SessionNotFoundError"]
        ELSE [Outcome2(persisted(store, updated_session)) EXCEPT
                  !.ret = Some(updated_session)]

is_session_active2(store, now1, now2) ==
    LET session == get_current_session2(store, now1).ret
    IN  [Outcome2(store) EXCEPT
             !.flag = ~ IsNone(session) /\ isActive(session[1], now2)]

delete_session2(store) == Outcome2(deleted(store))

\* What the caller sees of a call.
Seen(r) == [raised |-> r.raised, msg |-> r.msg, ret |-> r.ret, flag |-> r.flag]

\* The record of a call made on both variants.
PairCall(op, now, one, two) ==
    [op |-> op, now |-> now, one |-> Seen(one), two |-> Seen(two)]

\* `file` is the session file of the first variant, `prev` the store of
\* the second.
PairInit ==
    /\ file = NoFile
    /\ prev = None
    /\ clock = StartTime
    /\ settings \in [session_duration_hours : Durations]
    /\ last = PairCall("none", StartTime, Outcome(NoFile), Outcome2(None))

PairDone(op, one, two, now) ==
    /\ file' = one.file
    /\ prev' = two.store
    /\ clock' = now
    /\ last' = PairCall(op, now, one, two)
    /\ UNCHANGED settings

PairActivate ==
    \E po \in ProbeOutcomes, so \in SendOutcomes :
        /\ po # "exit_zero" => so = Answered
        /\ PairDone("activate_session",
                    activate_session(file, settings.session_duration_hours,
                                     po, so, clock, [kind |-> "ok", n |-> 3]),
                    activate_session2(prev, settings.session_duration_hours,
                                      test_connection(po), send_message(so),
                                      clock),
                    clock)

PairCurrent ==
    PairDone("get_current_session",
             get_current_session(file, clock, "ok"),
             get_current_session2(prev, clock), clock)

PairInfo ==
    \E now2 \in clock .. MaxTime :
        PairDone("get_session_info",
                 get_session_info(file, clock, now2, "ok",
                                  [kind |-> "ok", n |-> 3]),
                 get_session_info2(prev, clock, now2), now2)

PairAsk ==
    \E now2 \in clock .. MaxTime :
        PairDone("is_session_active",
                 is_session_active(file, clock, now2, "ok"),
                 is_session_active2(prev, clock, now2), now2)

PairDelete ==
    PairDone("delete_session", delete_session(file, "ok"),
             delete_session2(prev), clock)

PairNext ==
    \/ PairActivate
    \/ PairCurrent
    \/ PairInfo
    \/ PairAsk
    \/ PairDelete
    \/ Tick

PairSpec == PairInit /\ [][PairNext]_vars

\* The record a session file holds, as the three fields.
RecordOf(f) ==
    IF Holds(f)
    THEN Some(Session(Stored(f, "created_at"), Stored(f, "expires_at"),
                      Value(f.pairs, "status")))
    ELSE None

\* C39: run side by side on the same calls, with the same results of the
\* probe and of the handshake and the same clock, the two SessionManager
\* variants return the same results, raise the same failures and leave the
\* same stored record after every step.
C39_VariantsAgree ==
    /\ last.one = last.two
    /\ RecordOf(file) = prev
    /\ file.exists <=> ~ IsNone(prev)

\* Both variants answered a get_session_info after the expiry with an
\* Expired session and both stored it.
C39_Witness ==
    /\ last.op = "get_session_info"
    /\ last.one.raised = "none"
    /\ last.two.ret[1].status = EXPIRED
    /\ ~ IsNone(prev)
    /\ prev[1].status = EXPIRED
    /\ prev[1].expires_at > prev[1].created_at
    /\ Value(file.pairs, "status") = EXPIRED

====
